---- MODULE Spec2Model ----
(***************************************************************************)
(* Artist events: the RSVP ledger (EventsService.rsvp / unRsvp) with its   *)
(* denormalized counter artist_events.rsvp_count, event edits and deletes, *)
(* run by concurrent request handlers against one PostgreSQL database.     *)
(*                                                                         *)
(* Every awaited store call of a handler is one step.  Statements issued   *)
(* inside dataSource.transaction(...) stay pending (invisible to the other *)
(* handlers) until the transaction commits; a rejected statement rolls the *)
(* transaction back.                                                       *)
(***************************************************************************)
EXTENDS Integers, FiniteSets, Sequences, TLC

\* ---- bounds -------------------------------------------------------------
MaxRsvps == 2          \* event_rsvps ids generated in one behaviour
MaxEdits == 1          \* updateEvent / deleteEvent calls that reach the store
MaxTime == 1           \* the clock runs over 0..MaxTime
MaxSweeps == 2         \* firings of the reminder cron in one behaviour
MaxTotal == 25         \* greatest total handed to a PaginatedResult

Procs == {"p1", "p2"}              \* concurrent request handlers
EventIds == {1, 2}                 \* uuids handed out to events, in order
Users == {"u1", "u2"}
Artists == {"a1", "a2"}
NoTime == -1                       \* null / undefined instant
Times == 0..(MaxTime + 1)           \* instants a request can name
OptTimes == Times \cup {NoTime}
RsvpDtos == {"undefined", "true", "false"}   \* RsvpDto.reminderEnabled
Runs == {1, 2}                     \* invocations of the cron callback in flight

VARIABLES
    events,     \* table artist_events: id -> row
    rsvps,      \* table event_rsvps: set of committed rows
    now,        \* new Date()
    eventSeq,   \* number of event ids generated so far
    rsvpSeq,    \* number of rsvp ids generated so far
    edits,      \* number of updateEvent / deleteEvent calls let through
    pc,         \* per handler: the await it is suspended at
    local,      \* per handler: the locals of the running call
    response,   \* what the step just taken returned or threw to its caller
    sweep,      \* per cron invocation in flight: the await it is suspended at
                \* and its locals
    sweepSeq,   \* number of firings of the reminder cron so far
    picked,     \* history: <<n, e>> when firing n selected event e
    sent,       \* history: the calls the notification service accepted
    failed      \* history: <<n, e>> when the dispatch of firing n for e threw

sweepVars == <<sweep, sweepSeq, picked, sent, failed>>
vars == <<events, rsvps, now, eventSeq, rsvpSeq, edits, pc, local, response,
          sweep, sweepSeq, picked, sent, failed>>

\* ---- rows ---------------------------------------------------------------
NoRsvp == [id |-> 0, eventId |-> 0, userId |-> "none",
           reminderEnabled |-> FALSE, reminderSent |-> FALSE]
NoEntity == [artistId |-> "none", startTime |-> NoTime, endTime |-> NoTime,
             rsvpCount |-> 0]
IdleLocal == [eventId |-> 0, userId |-> "none", dto |-> "undefined",
              rsvp |-> NoRsvp, entity |-> NoEntity]
NoResponse == [op |-> "none", eventId |-> 0, status |-> "none", rsvp |-> NoRsvp]

\* a cron invocation that is not running
IdleRun == [pc |-> "idle", n |-> 0, upcomingEvents |-> <<>>, rsvps |-> {}]

\* a call returns (status "ok") or throws; rsvp returns the created row
Reply(o, e, s) == [op |-> o, eventId |-> e, status |-> s, rsvp |-> NoRsvp]

\* ArtistEvent as created by createEvent: rsvp_count DEFAULT 0
ArtistEvent(a, s, t) ==
    [artistId |-> a, startTime |-> s, endTime |-> t, rsvpCount |-> 0]

\* reminder_sent DEFAULT true
EventRSVP_sent(i, e, u, r) ==
    [id |-> i, eventId |-> e, userId |-> u,
     reminderEnabled |-> r, reminderSent |-> TRUE]

\* EventRSVP as created inside rsvp: reminder_sent DEFAULT false
EventRSVP(i, e, u, r) ==
    [id |-> i, eventId |-> e, userId |-> u,
     reminderEnabled |-> r, reminderSent |-> FALSE]

\* dto.reminderEnabled ?? false
ReminderEnabledOff(d) == d = "true"

\* dto.reminderEnabled ?? true
ReminderEnabledOf(d) == IF d = "undefined" THEN TRUE ELSE d = "true"

\* rsvpRepo.findOne({ where: { eventId, userId } })
RsvpsOf(e, u) == {r \in rsvps : r.eventId = e /\ r.userId = u}
RsvpsOfEvent(e) == {r \in rsvps : r.eventId = e}

\* ---- the store's constraints and locks ----------------------------------
\* rows inserted by transactions of other handlers that are not yet committed
PendingInserts(p) ==
    {local[q].rsvp : q \in {x \in Procs \ {p} : pc[x] = "rsvp_update"}}
\* ids of rows deleted by transactions of other handlers, not yet committed
PendingRemoves(p) ==
    {local[q].rsvp.id : q \in {x \in Procs \ {p} : pc[x] = "unRsvp_update"}}

\* the table without its unique index
uq_dropped(S, e, u) == FALSE

\* UNIQUE (event_id, user_id): TRUE iff a row of (e, u) is in S
uq_event_rsvps_event_user(S, e, u) ==
    \E r \in S : r.eventId = e /\ r.userId = u

\* the table without its foreign key
fk_dropped(e) == FALSE

\* FOREIGN KEY (event_id) REFERENCES artist_events: TRUE iff e is absent
fk_event_rsvps_event(e) == e \notin DOMAIN events

\* SET rsvp_count = 1 WHERE id = e: the count read from an event without
\* RSVPs, plus one, written back
IncrementFetched(ev, e) ==
    IF e \in DOMAIN ev
    THEN [ev EXCEPT ![e].rsvpCount = 1]
    ELSE ev

\* SET rsvp_count = rsvp_count + 1 WHERE id = e
IncrementCount(ev, e) ==
    IF e \in DOMAIN ev
    THEN [ev EXCEPT ![e].rsvpCount = @ + 1]
    ELSE ev

Greatest(a, b) == IF a >= b THEN a ELSE b

\* SET rsvp_count = rsvp_count - 1 WHERE id = e
DecrementUnclamped(ev, e) ==
    IF e \in DOMAIN ev
    THEN [ev EXCEPT ![e].rsvpCount = @ - 1]
    ELSE ev

\* SET rsvp_count = GREATEST(rsvp_count - 1, 0) WHERE id = e
DecrementCount(ev, e) ==
    IF e \in DOMAIN ev
    THEN [ev EXCEPT ![e].rsvpCount = Greatest(@ - 1, 0)]
    ELSE ev

\* ---- Init ---------------------------------------------------------------
Init ==
    /\ events = <<>>
    /\ rsvps = {}
    /\ now = 0
    /\ eventSeq = 0
    /\ rsvpSeq = 0
    /\ edits = 0
    /\ pc = [p \in Procs |-> "idle"]
    /\ local = [p \in Procs |-> IdleLocal]
    /\ response = NoResponse
    /\ sweep = [s \in Runs |-> IdleRun]
    /\ sweepSeq = 0
    /\ picked = {}
    /\ sent = {}
    /\ failed = {}

\* the call of p ends with status s
Return(p, o, e, s) ==
    /\ pc' = [pc EXCEPT ![p] = "idle"]
    /\ local' = [local EXCEPT ![p] = IdleLocal]
    /\ response' = Reply(o, e, s)
    /\ UNCHANGED edits

Suspend(p, label, l) ==
    /\ pc' = [pc EXCEPT ![p] = label]
    /\ local' = [local EXCEPT ![p] = l]
    /\ response' = NoResponse

\* the call of p suspends at its next await
Await(p, label, l) ==
    /\ Suspend(p, label, l)
    /\ UNCHANGED edits

\* an updateEvent / deleteEvent call of p suspends at its write
AwaitEdit(p, label, l) ==
    /\ edits < MaxEdits
    /\ edits' = edits + 1
    /\ Suspend(p, label, l)

\* rsvp calls that may still generate an id
Inserting == {p \in Procs : pc[p] \in {"rsvp_findOne", "rsvp_save"}}

\* startTime < new Date(): an event that starts at the current instant passes
createEvent_past(a, s, t) ==
    /\ eventSeq < Cardinality(EventIds)
    /\ UNCHANGED sweepVars
    /\ UNCHANGED <<rsvps, now, rsvpSeq, edits, pc, local>>
    /\ IF s < now \/ (t # NoTime /\ t <= s)
       THEN /\ response' = Reply("createEvent", 0, "INVALID_STATE")
            /\ UNCHANGED <<events, eventSeq>>
       ELSE /\ events' = (eventSeq + 1 :> ArtistEvent(a, s, t)) @@ events
            /\ eventSeq' = eventSeq + 1
            /\ response' = Reply("createEvent", eventSeq + 1, "ok")

\* ---- createEvent --------------------------------------------------------
\* one await (eventRepo.save): the call is a single step of its handler
createEvent(a, s, t) ==
    /\ eventSeq < Cardinality(EventIds)
    /\ UNCHANGED sweepVars
    /\ UNCHANGED <<rsvps, now, rsvpSeq, edits, pc, local>>
    /\ IF s <= now \/ (t # NoTime /\ t <= s)
       THEN /\ response' = Reply("createEvent", 0, "INVALID_STATE")
            /\ UNCHANGED <<events, eventSeq>>
       ELSE /\ events' = (eventSeq + 1 :> ArtistEvent(a, s, t)) @@ events
            /\ eventSeq' = eventSeq + 1
            /\ response' = Reply("createEvent", eventSeq + 1, "ok")

\* the new end instant is compared with the stored start instant only
updateEvent_getEvent_stored(p, e, a, s, t) ==
    /\ pc[p] = "idle"
    /\ UNCHANGED sweepVars
    /\ UNCHANGED <<events, rsvps, now, eventSeq, rsvpSeq>>
    /\ IF e \notin DOMAIN events
       THEN Return(p, "updateEvent", e, "NOT_FOUND")
       ELSE IF events[e].artistId # a
       THEN Return(p, "updateEvent", e, "FORBIDDEN")
       ELSE LET startTime == IF s # NoTime THEN s ELSE events[e].startTime
                endTime == IF t # NoTime THEN t ELSE events[e].endTime
            IN  IF t # NoTime /\ t <= events[e].startTime
                THEN Return(p, "updateEvent", e, "INVALID_STATE")
                ELSE AwaitEdit(p, "updateEvent_save",
                               [IdleLocal EXCEPT
                                  !.eventId = e,
                                  !.entity = [events[e] EXCEPT
                                                !.startTime = startTime,
                                                !.endTime = endTime]])

\* ---- updateEvent --------------------------------------------------------
updateEvent_getEvent(p, e, a, s, t) ==
    /\ pc[p] = "idle"
    /\ UNCHANGED sweepVars
    /\ UNCHANGED <<events, rsvps, now, eventSeq, rsvpSeq>>
    /\ IF e \notin DOMAIN events
       THEN Return(p, "updateEvent", e, "NOT_FOUND")
       ELSE IF events[e].artistId # a
       THEN Return(p, "updateEvent", e, "FORBIDDEN")
       ELSE LET startTime == IF s # NoTime THEN s ELSE events[e].startTime
                endTime == IF t # NoTime THEN t ELSE events[e].endTime
            IN  IF endTime # NoTime /\ endTime <= startTime
                THEN Return(p, "updateEvent", e, "INVALID_STATE")
                ELSE AwaitEdit(p, "updateEvent_save",
                               [IdleLocal EXCEPT
                                  !.eventId = e,
                                  !.entity = [events[e] EXCEPT
                                                !.startTime = startTime,
                                                !.endTime = endTime]])

\* the save also clears reminder_sent on the rows of the event, so that a
\* rescheduled event is reminded again
updateEvent_save_remindAgain(p) ==
    /\ pc[p] = "updateEvent_save"
    /\ events' = (local[p].eventId :> local[p].entity) @@ events
    /\ rsvps' = {IF r.eventId = local[p].eventId
                 THEN [r EXCEPT !.reminderSent = FALSE]
                 ELSE r : r \in rsvps}
    /\ Return(p, "updateEvent", local[p].eventId, "ok")
    /\ UNCHANGED sweepVars
    /\ UNCHANGED <<now, eventSeq, rsvpSeq>>

\* eventRepo.save(event): the row becomes the entity held by the handler
\* (inserted again when it was deleted meanwhile)
updateEvent_save(p) ==
    /\ pc[p] = "updateEvent_save"
    /\ events' = (local[p].eventId :> local[p].entity) @@ events
    /\ Return(p, "updateEvent", local[p].eventId, "ok")
    /\ UNCHANGED sweepVars
    /\ UNCHANGED <<rsvps, now, eventSeq, rsvpSeq>>

\* deleteEvent without the ownership check
deleteEvent_getEvent_anyone(p, e, a) ==
    /\ pc[p] = "idle"
    /\ UNCHANGED sweepVars
    /\ UNCHANGED <<events, rsvps, now, eventSeq, rsvpSeq>>
    /\ IF e \notin DOMAIN events
       THEN Return(p, "deleteEvent", e, "NOT_FOUND")
       ELSE AwaitEdit(p, "deleteEvent_remove",
                      [IdleLocal EXCEPT !.eventId = e])

\* the foreign key without ON DELETE CASCADE and unchecked: the rows stay
deleteEvent_remove_noCascade(p) ==
    LET e == local[p].eventId IN
    /\ pc[p] = "deleteEvent_remove"
    /\ events' = [x \in DOMAIN events \ {e} |-> events[x]]
    /\ rsvps' = rsvps
    /\ Return(p, "deleteEvent", e, "ok")
    /\ UNCHANGED sweepVars
    /\ UNCHANGED <<now, eventSeq, rsvpSeq>>

\* ---- deleteEvent --------------------------------------------------------
deleteEvent_getEvent(p, e, a) ==
    /\ pc[p] = "idle"
    /\ UNCHANGED sweepVars
    /\ UNCHANGED <<events, rsvps, now, eventSeq, rsvpSeq>>
    /\ IF e \notin DOMAIN events
       THEN Return(p, "deleteEvent", e, "NOT_FOUND")
       ELSE IF events[e].artistId # a
       THEN Return(p, "deleteEvent", e, "FORBIDDEN")
       ELSE AwaitEdit(p, "deleteEvent_remove",
                      [IdleLocal EXCEPT !.eventId = e])

\* eventRepo.remove(event); ON DELETE CASCADE removes the event's rsvps.
\* The delete waits for transactions holding rows that reference the event.
deleteEvent_remove(p) ==
    LET e == local[p].eventId IN
    /\ pc[p] = "deleteEvent_remove"
    /\ \A r \in PendingInserts(p) : r.eventId # e
    /\ \A r \in RsvpsOfEvent(e) : r.id \notin PendingRemoves(p)
    /\ events' = [x \in DOMAIN events \ {e} |-> events[x]]
    /\ rsvps' = rsvps \ RsvpsOfEvent(e)
    /\ Return(p, "deleteEvent", e, "ok")
    /\ UNCHANGED sweepVars
    /\ UNCHANGED <<now, eventSeq, rsvpSeq>>

\* event.startTime < new Date()
rsvp_getEvent_strict(p, e, u, d) ==
    /\ pc[p] = "idle"
    /\ UNCHANGED sweepVars
    /\ UNCHANGED <<events, rsvps, now, eventSeq, rsvpSeq>>
    /\ IF e \notin DOMAIN events
       THEN Return(p, "rsvp", e, "NOT_FOUND")
       ELSE IF events[e].startTime < now
       THEN Return(p, "rsvp", e, "INVALID_STATE")
       ELSE /\ rsvpSeq + Cardinality(Inserting) < MaxRsvps
            /\ Await(p, "rsvp_findOne",
                     [IdleLocal EXCEPT !.eventId = e, !.userId = u, !.dto = d])

\* the existing RSVP is looked up before the start instant is compared
rsvp_getEvent_existingFirst(p, e, u, d) ==
    /\ pc[p] = "idle"
    /\ UNCHANGED sweepVars
    /\ UNCHANGED <<events, rsvps, now, eventSeq, rsvpSeq>>
    /\ IF e \notin DOMAIN events
       THEN Return(p, "rsvp", e, "NOT_FOUND")
       ELSE IF RsvpsOf(e, u) # {}
       THEN Return(p, "rsvp", e, "ALREADY_EXISTS")
       ELSE IF events[e].startTime <= now
       THEN Return(p, "rsvp", e, "INVALID_STATE")
       ELSE /\ rsvpSeq + Cardinality(Inserting) < MaxRsvps
            /\ Await(p, "rsvp_findOne",
                     [IdleLocal EXCEPT !.eventId = e, !.userId = u, !.dto = d])

\* ---- rsvp ---------------------------------------------------------------
rsvp_getEvent(p, e, u, d) ==
    /\ pc[p] = "idle"
    /\ UNCHANGED sweepVars
    /\ UNCHANGED <<events, rsvps, now, eventSeq, rsvpSeq>>
    /\ IF e \notin DOMAIN events
       THEN Return(p, "rsvp", e, "NOT_FOUND")
       ELSE IF events[e].startTime <= now
       THEN Return(p, "rsvp", e, "INVALID_STATE")
       ELSE /\ rsvpSeq + Cardinality(Inserting) < MaxRsvps
            /\ Await(p, "rsvp_findOne",
                     [IdleLocal EXCEPT !.eventId = e, !.userId = u, !.dto = d])

\* the counter is incremented before the duplicate is rejected
rsvp_findOne_countFirst(p) ==
    LET e == local[p].eventId
        u == local[p].userId
    IN
    /\ pc[p] = "rsvp_findOne"
    /\ UNCHANGED sweepVars
    /\ UNCHANGED <<rsvps, now, eventSeq, rsvpSeq>>
    /\ IF RsvpsOf(e, u) # {}
       THEN /\ events' = IncrementCount(events, e)
            /\ Return(p, "rsvp", e, "ALREADY_EXISTS")
       ELSE /\ UNCHANGED events
            /\ Await(p, "rsvp_save", local[p])

rsvp_findOne(p) ==
    LET e == local[p].eventId
        u == local[p].userId
    IN
    /\ pc[p] = "rsvp_findOne"
    /\ UNCHANGED sweepVars
    /\ UNCHANGED <<events, rsvps, now, eventSeq, rsvpSeq>>
    /\ IF RsvpsOf(e, u) # {}
       THEN Return(p, "rsvp", e, "ALREADY_EXISTS")
       ELSE Await(p, "rsvp_save", local[p])

\* the statements of p ran outside the transaction: what it wrote stays
Autocommitted(p) ==
    /\ rsvps' = IF pc[p] = "rsvp_update"
                THEN rsvps \cup {local[p].rsvp}
                ELSE IF pc[p] = "unRsvp_update"
                THEN {r \in rsvps : r.id # local[p].rsvp.id}
                ELSE rsvps
    /\ events' = events

\* the transaction of p ends without commit: nothing it wrote becomes visible
Rollback(p) ==
    /\ rsvps' = rsvps
    /\ events' = events

\* the counter is incremented on its own connection before the insert: the
\* rejected insert leaves the increment behind
rsvp_save_countFirst(p) ==
    LET e == local[p].eventId
        u == local[p].userId
    IN
    /\ pc[p] = "rsvp_save"
    /\ ~uq_event_rsvps_event_user(PendingInserts(p), e, u)
    /\ UNCHANGED sweepVars
    /\ UNCHANGED <<now, eventSeq>>
    /\ \/ /\ Rollback(p)
          /\ UNCHANGED rsvpSeq
          /\ Return(p, "rsvp", e, "TRANSIENT_STORE_FAILURE")
       \/ IF fk_event_rsvps_event(e) \/ uq_event_rsvps_event_user(rsvps, e, u)
          THEN /\ rsvps' = rsvps
               /\ events' = IncrementCount(events, e)
               /\ UNCHANGED rsvpSeq
               /\ Return(p, "rsvp", e, "QUERY_FAILED")
          ELSE /\ rsvpSeq' = rsvpSeq + 1
               /\ UNCHANGED <<events, rsvps>>
               /\ Await(p, "rsvp_update",
                        [local[p] EXCEPT
                           !.rsvp = EventRSVP(rsvpSeq + 1, e, u,
                                     ReminderEnabledOf(local[p].dto))])

\* manager.save(rsvp): INSERT INTO event_rsvps inside the transaction
rsvp_save(p) ==
    LET e == local[p].eventId
        u == local[p].userId
    IN
    /\ pc[p] = "rsvp_save"
    /\ ~uq_event_rsvps_event_user(PendingInserts(p), e, u)
    /\ UNCHANGED sweepVars
    /\ UNCHANGED <<now, eventSeq>>
    /\ \/ /\ Rollback(p)
          /\ UNCHANGED rsvpSeq
          /\ Return(p, "rsvp", e, "TRANSIENT_STORE_FAILURE")
       \/ IF fk_event_rsvps_event(e) \/ uq_event_rsvps_event_user(rsvps, e, u)
          THEN /\ Rollback(p)
               /\ UNCHANGED rsvpSeq
               /\ Return(p, "rsvp", e, "QUERY_FAILED")
          ELSE /\ rsvpSeq' = rsvpSeq + 1
               /\ UNCHANGED <<events, rsvps>>
               /\ Await(p, "rsvp_update",
                        [local[p] EXCEPT
                           !.rsvp = EventRSVP(rsvpSeq + 1, e, u,
                                     ReminderEnabledOf(local[p].dto))])

\* UPDATE artist_events SET rsvp_count = rsvp_count + 1, then COMMIT
rsvp_update(p) ==
    LET e == local[p].eventId
        u == local[p].userId
    IN
    /\ pc[p] = "rsvp_update"
    /\ UNCHANGED sweepVars
    /\ UNCHANGED <<now, eventSeq, rsvpSeq>>
    /\ \/ /\ Rollback(p)
          /\ Return(p, "rsvp", e, "TRANSIENT_STORE_FAILURE")
       \/ /\ rsvps' = rsvps \cup {local[p].rsvp}
          /\ events' = IncrementCount(events, e)
          /\ pc' = [pc EXCEPT ![p] = "idle"]
          /\ local' = [local EXCEPT ![p] = IdleLocal]
          /\ response' = [Reply("rsvp", e, "ok") EXCEPT !.rsvp = local[p].rsvp]
          /\ UNCHANGED edits

\* ---- unRsvp -------------------------------------------------------------
unRsvp_findOne(p, e, u) ==
    /\ pc[p] = "idle"
    /\ UNCHANGED sweepVars
    /\ UNCHANGED <<events, rsvps, now, eventSeq, rsvpSeq>>
    /\ IF RsvpsOf(e, u) = {}
       THEN Return(p, "unRsvp", e, "NOT_FOUND")
       ELSE \E r \in RsvpsOf(e, u) :
              Await(p, "unRsvp_remove",
                    [IdleLocal EXCEPT !.eventId = e, !.userId = u, !.rsvp = r])

\* manager.remove(rsvp): DELETE FROM event_rsvps WHERE id = rsvp.id
unRsvp_remove(p) ==
    LET e == local[p].eventId
        u == local[p].userId
    IN
    /\ pc[p] = "unRsvp_remove"
    /\ local[p].rsvp.id \notin PendingRemoves(p)
    /\ UNCHANGED sweepVars
    /\ UNCHANGED <<now, eventSeq, rsvpSeq>>
    /\ \/ /\ Rollback(p)
          /\ Return(p, "unRsvp", e, "TRANSIENT_STORE_FAILURE")
       \/ /\ UNCHANGED <<events, rsvps>>
          /\ Await(p, "unRsvp_update", local[p])

\* UPDATE artist_events SET rsvp_count = GREATEST(rsvp_count - 1, 0), COMMIT
unRsvp_update(p) ==
    LET e == local[p].eventId
        u == local[p].userId
    IN
    /\ pc[p] = "unRsvp_update"
    /\ UNCHANGED sweepVars
    /\ UNCHANGED <<now, eventSeq, rsvpSeq>>
    /\ \/ /\ Rollback(p)
          /\ Return(p, "unRsvp", e, "TRANSIENT_STORE_FAILURE")
       \/ /\ rsvps' = {r \in rsvps : r.id # local[p].rsvp.id}
          /\ events' = DecrementCount(events, e)
          /\ Return(p, "unRsvp", e, "ok")

\* ---- clock --------------------------------------------------------------
Tick ==
    /\ now < MaxTime
    /\ now' = now + 1
    /\ response' = NoResponse
    /\ UNCHANGED sweepVars
    /\ UNCHANGED <<events, rsvps, eventSeq, rsvpSeq, edits, pc, local>>

\* ---- reminder sweeper ----------------------------------------------------
\* One clock unit is 2.5 minutes.
Period == 2                     \* CronExpression.EVERY_5_MINUTES
buffer(t) == t + 22             \* now.getTime() + 55 * 60 * 1000
oneHourFromNow(t) == t + 24     \* now.getTime() + 60 * 60 * 1000

Min(a, b) == IF a <= b THEN a ELSE b

\* event.start_time >= :buffer AND event.start_time <= :oneHourFromNow
StartingSoonClosed(t) ==
    {e \in DOMAIN events : /\ events[e].startTime >= buffer(t)
                           /\ events[e].startTime <= oneHourFromNow(t)}

\* event.start_time > :buffer AND event.start_time <= :oneHourFromNow
getEventsStartingSoon(t) ==
    {e \in DOMAIN events : /\ events[e].startTime > buffer(t)
                           /\ events[e].startTime <= oneHourFromNow(t)}

\* getMany() without ORDER BY: the selected rows in any order
RECURSIVE Orders(_)
Orders(S) ==
    IF S = {}
    THEN {<<>>}
    ELSE UNION {{<<x>> \o q : q \in Orders(S \ {x})} : x \in S}

\* rsvpRepo.find({ where: { eventId, reminderEnabled: true } })
RsvpsWithReminder(e) ==
    {r \in rsvps : r.eventId = e /\ r.reminderEnabled}

\* rsvpRepo.find({ where: { eventId, reminderSent: false } })
RsvpsNotSent(e) ==
    {r \in rsvps : r.eventId = e /\ ~r.reminderSent}

\* rsvpRepo.find({ where: { reminderEnabled: true, reminderSent: false } })
RsvpsOfAllEvents(e) ==
    {r \in rsvps : r.reminderEnabled /\ ~r.reminderSent}

\* rsvpRepo.find({ where: { eventId } })
RsvpsOfEventAll(e) ==
    {r \in rsvps : r.eventId = e}

\* rsvpRepo.find({ where: { eventId, reminderEnabled: true,
\*                          reminderSent: false } })
getRsvpsForReminder(e) ==
    {r \in rsvps : r.eventId = e /\ r.reminderEnabled /\ ~r.reminderSent}

\* rsvpRepo.update({}, { reminderSent: true })
markAllSent(rsvpIds) ==
    {[r EXCEPT !.reminderSent = TRUE] : r \in rsvps}

\* rsvpRepo.update({ id: In(rsvpIds) }, { reminderSent: true })
\* if (!rsvpIds.length) return;
markReminderSent(rsvpIds) ==
    IF rsvpIds = {}
    THEN rsvps
    ELSE {IF r.id \in rsvpIds THEN [r EXCEPT !.reminderSent = TRUE] ELSE r :
            r \in rsvps}

\* what a step of the sweeper leaves alone
SweepFrame ==
    /\ response' = NoResponse
    /\ UNCHANGED <<events, now, eventSeq, rsvpSeq, edits, pc, local>>

\* the loop index is not advanced
SameEvent(s) ==
    sweep' = [sweep EXCEPT ![s].pc = "getRsvpsForReminder", ![s].rsvps = {}]

\* the loop goes on to the next candidate, or the invocation completes
NextEvent(s) ==
    LET rest == Tail(sweep[s].upcomingEvents) IN
    sweep' = [sweep EXCEPT ![s] =
                IF rest = <<>>
                THEN IdleRun
                ELSE [@ EXCEPT !.pc = "getRsvpsForReminder",
                               !.upcomingEvents = rest,
                               !.rsvps = {}]]

\* no try / catch around the loop body: the error ends the invocation
Rethrown(s) == sweep' = [sweep EXCEPT ![s] = IdleRun]

\* the failed iteration is run again
Retried(s) ==
    sweep' = [sweep EXCEPT ![s].pc = "getRsvpsForReminder", ![s].rsvps = {}]

\* catch (err) { this.logger.error(...) }
Caught(s) == NextEvent(s)

\* a running flag is set before the query and cleared after the loop only:
\* a rejected query leaves it set
sendEventReminders_getEventsStartingSoon_flag(s) ==
    /\ sweepSeq < MaxSweeps
    /\ now >= sweepSeq * Period
    /\ sweep[s].pc = "idle"
    /\ \A q \in Runs : sweep[q].pc = "idle" => s <= q
    /\ sweepSeq' = sweepSeq + 1
    /\ SweepFrame
    /\ UNCHANGED <<rsvps, sent, failed>>
    /\ \/ /\ sweep' = [sweep EXCEPT ![s].pc = "running"]
          /\ UNCHANGED picked
       \/ \E q \in Orders(getEventsStartingSoon(now)) :
            /\ picked' = picked \cup {<<sweepSeq + 1, q[i]>> : i \in DOMAIN q}
            /\ sweep' = [sweep EXCEPT ![s] =
                           IF q = <<>>
                           THEN IdleRun
                           ELSE [pc |-> "getRsvpsForReminder",
                                 n |-> sweepSeq + 1,
                                 upcomingEvents |-> q,
                                 rsvps |-> {}]]

\* the cron fires the callback (never early, late by less than one period),
\* which reads the clock and selects the candidates
sendEventReminders_getEventsStartingSoon(s) ==
    /\ sweepSeq < MaxSweeps
    /\ now >= sweepSeq * Period
    /\ sweep[s].pc = "idle"
    /\ \A q \in Runs : sweep[q].pc = "idle" => s <= q
    /\ sweepSeq' = sweepSeq + 1
    /\ SweepFrame
    /\ UNCHANGED <<rsvps, sent, failed>>
    /\ \/ UNCHANGED <<sweep, picked>>
       \/ \E q \in Orders(getEventsStartingSoon(now)) :
            /\ picked' = picked \cup {<<sweepSeq + 1, q[i]>> : i \in DOMAIN q}
            /\ sweep' = [sweep EXCEPT ![s] =
                           IF q = <<>>
                           THEN IdleRun
                           ELSE [pc |-> "getRsvpsForReminder",
                                 n |-> sweepSeq + 1,
                                 upcomingEvents |-> q,
                                 rsvps |-> {}]]

\* the loop body without "if (!rsvps.length) continue"
sendEventReminders_getRsvpsForReminder_noSkip(s) ==
    LET rows == getRsvpsForReminder(Head(sweep[s].upcomingEvents)) IN
    /\ sweep[s].pc = "getRsvpsForReminder"
    /\ SweepFrame
    /\ UNCHANGED <<rsvps, sweepSeq, picked, sent, failed>>
    /\ \/ Caught(s)
       \/ sweep' = [sweep EXCEPT ![s].pc = "notify", ![s].rsvps = rows]

\* the rows are marked in a finally block: also when the dispatch threw
sendEventReminders_notify_finally(s) ==
    /\ sweep[s].pc = "notify"
    /\ SweepFrame
    /\ UNCHANGED <<sweepSeq, picked>>
    /\ \/ /\ Caught(s)
          /\ failed' = failed \cup
                {<<sweep[s].n, Head(sweep[s].upcomingEvents)>>}
          /\ rsvps' = markReminderSent({r.id : r \in sweep[s].rsvps})
          /\ UNCHANGED sent
       \/ /\ UNCHANGED <<failed, rsvps>>
          /\ sent' = sent \cup
                {[n |-> sweep[s].n,
                  eventId |-> Head(sweep[s].upcomingEvents),
                  userIds |-> {r.userId : r \in sweep[s].rsvps},
                  rsvpIds |-> {r.id : r \in sweep[s].rsvps}]}
          /\ sweep' = [sweep EXCEPT ![s].pc = "markReminderSent"]

\* const rsvps = await this.eventsService.getRsvpsForReminder(event.id)
sendEventReminders_getRsvpsForReminder(s) ==
    LET rows == getRsvpsForReminder(Head(sweep[s].upcomingEvents)) IN
    /\ sweep[s].pc = "getRsvpsForReminder"
    /\ SweepFrame
    /\ UNCHANGED <<rsvps, sweepSeq, picked, sent, failed>>
    /\ \/ Caught(s)
       \/ IF rows = {}
          THEN NextEvent(s)
          ELSE sweep' = [sweep EXCEPT ![s].pc = "notify", ![s].rsvps = rows]

\* await this.notificationsService.sendEventReminders(userIds, event)
sendEventReminders_notify(s) ==
    /\ sweep[s].pc = "notify"
    /\ SweepFrame
    /\ UNCHANGED <<rsvps, sweepSeq, picked>>
    /\ \/ /\ Caught(s)
          /\ failed' = failed \cup
                {<<sweep[s].n, Head(sweep[s].upcomingEvents)>>}
          /\ UNCHANGED sent
       \/ /\ UNCHANGED failed
          /\ sent' = sent \cup
                {[n |-> sweep[s].n,
                  eventId |-> Head(sweep[s].upcomingEvents),
                  userIds |-> {r.userId : r \in sweep[s].rsvps},
                  rsvpIds |-> {r.id : r \in sweep[s].rsvps}]}
          /\ sweep' = [sweep EXCEPT ![s].pc = "markReminderSent"]

\* rsvpRepo.update({ eventId: event.id }, { reminderSent: true })
sendEventReminders_markReminderSent_byEvent(s) ==
    /\ sweep[s].pc = "markReminderSent"
    /\ \A p \in Procs :
         pc[p] = "unRsvp_update" => local[p].rsvp \notin sweep[s].rsvps
    /\ SweepFrame
    /\ UNCHANGED <<sweepSeq, picked, sent, failed>>
    /\ \/ /\ Caught(s)
          /\ UNCHANGED rsvps
       \/ /\ rsvps' = {IF r.eventId = Head(sweep[s].upcomingEvents)
                        THEN [r EXCEPT !.reminderSent = TRUE]
                        ELSE r : r \in rsvps}
          /\ NextEvent(s)

\* await this.eventsService.markReminderSent(rsvpIds); the update waits for
\* an open transaction that deleted one of the rows
sendEventReminders_markReminderSent(s) ==
    /\ sweep[s].pc = "markReminderSent"
    /\ \A p \in Procs :
         pc[p] = "unRsvp_update" => local[p].rsvp \notin sweep[s].rsvps
    /\ SweepFrame
    /\ UNCHANGED <<sweepSeq, picked, sent, failed>>
    /\ \/ /\ Caught(s)
          /\ UNCHANGED rsvps
       \/ /\ rsvps' = markReminderSent({r.id : r \in sweep[s].rsvps})
          /\ NextEvent(s)

\* the clock while the cron is scheduled: firing k is due at k * Period and
\* is at most Period - 1 late
Elapse ==
    /\ now + 1 < Min(sweepSeq + 1, MaxSweeps) * Period
    /\ now' = now + 1
    /\ response' = NoResponse
    /\ UNCHANGED sweepVars
    /\ UNCHANGED <<events, rsvps, eventSeq, rsvpSeq, edits, pc, local>>

\* ---- listings: getEventsByArtist, getFeed ---------------------------------
Undefined == 0                  \* a PaginationDto field that was not sent

\* const { page = 1, limit = 20 } = pagination
PageOf(page) == IF page = Undefined THEN 1 ELSE page
LimitOf(limit) == IF limit = Undefined THEN 20 ELSE limit

\* Math.floor(total / limit)
Floor(total, limit) == total \div limit

\* Math.ceil(total / limit), limit >= 1
Ceil(total, limit) ==
    IF total % limit = 0 THEN total \div limit ELSE total \div limit + 1

\* new PaginatedResult(data, total, page, limit)
PaginatedResult(data, total, page, limit) ==
    [data |-> data, total |-> total, page |-> page, limit |-> limit,
     totalPages |-> Ceil(total, limit)]

\* what a listing returns, with the number of findAndCount calls it made
Listing(o, result, calls) ==
    [op |-> o, eventId |-> 0, status |-> "ok", rsvp |-> NoRsvp,
     result |-> result, findAndCount |-> calls]

\* order: { startTime: 'ASC' }: the rows in any order that ascends by start
OrderByStartTime(S) ==
    {q \in Orders(S) :
       \A i \in 1..Len(q), j \in 1..Len(q) :
         i < j => events[q[i]].startTime <= events[q[j]].startTime}

\* skip: (page - 1) * limit
Skip(page, limit) == (page - 1) * limit

\* OFFSET skip LIMIT take over the ordered rows
SkipTake(q, skip, take) == SubSeq(q, skip + 1, Min(skip + take, Len(q)))

\* where: { artistId }
ByArtist(a) == {e \in DOMAIN events : events[e].artistId = a}

\* where: { artistId: In(ids), startTime: MoreThanOrEqual(new Date()) }
UpcomingOrNow(followedArtistIds, t) ==
    {e \in DOMAIN events : /\ events[e].artistId \in followedArtistIds
                           /\ events[e].startTime >= t}

\* where: { artistId: In(followedArtistIds), startTime: MoreThan(new Date()) }
Upcoming(followedArtistIds, t) ==
    {e \in DOMAIN events : /\ events[e].artistId \in followedArtistIds
                           /\ events[e].startTime > t}

\* what a listing leaves alone
ReadOnly ==
    /\ UNCHANGED sweepVars
    /\ UNCHANGED <<events, rsvps, now, eventSeq, rsvpSeq, edits, pc, local>>

\* eventRepo.findAndCount over the rows S, then new PaginatedResult
findAndCount(o, S, page, limit) ==
    \E q \in OrderByStartTime(S) :
      response' = Listing(o, PaginatedResult(
                               SkipTake(q, Skip(page, limit), limit),
                               Len(q), page, limit), 1)

\* one await (findAndCount): the call is a single step
getEventsByArtist(a, page, limit) ==
    /\ ReadOnly
    /\ findAndCount("getEventsByArtist", ByArtist(a), PageOf(page), LimitOf(limit))

\* getFeed without its early return
getFeed_always(followedArtistIds, page, limit) ==
    /\ ReadOnly
    /\ findAndCount("getFeed", Upcoming(followedArtistIds, now),
                    PageOf(page), LimitOf(limit))

\* one await at most (findAndCount): the call is a single step
getFeed(followedArtistIds, page, limit) ==
    /\ ReadOnly
    /\ IF followedArtistIds = {}
       THEN response' = Listing("getFeed",
                                PaginatedResult(<<>>, 0, PageOf(page),
                                                LimitOf(limit)), 0)
       ELSE findAndCount("getFeed", Upcoming(followedArtistIds, now),
                         PageOf(page), LimitOf(limit))

\* new PaginatedResult([], total, page, limit) called on its own
newPaginatedResult(total, page, limit) ==
    /\ ReadOnly
    /\ response' = Listing("PaginatedResult",
                           PaginatedResult(<<>>, total, page, limit), 0)

\* ---- specifications ---------------------------------------------------
\* inputs of the requests
Owners == {"a1"}                   \* artists that create events
EndTimes == {NoTime}               \* dto.endTime
DefaultDto == {"undefined"}        \* RsvpDto of a request without a body

\* the whole service, with one event in the table: requests that name the
\* other id meet NOT_FOUND
Next ==
    \/ \E a \in Owners, s \in Times, t \in EndTimes :
         eventSeq = 0 /\ createEvent(a, s, t)
    \/ \E p \in Procs, e \in EventIds, a \in Artists, s \in OptTimes,
          t \in EndTimes : updateEvent_getEvent(p, e, a, s, t)
    \/ \E p \in Procs : updateEvent_save(p)
    \/ \E p \in Procs, e \in EventIds, a \in Artists :
         deleteEvent_getEvent(p, e, a)
    \/ \E p \in Procs : deleteEvent_remove(p)
    \/ \E p \in Procs, e \in EventIds, u \in Users, d \in DefaultDto :
         rsvp_getEvent(p, e, u, d)
    \/ \E p \in Procs : rsvp_findOne(p)
    \/ \E p \in Procs : rsvp_save(p)
    \/ \E p \in Procs : rsvp_update(p)
    \/ \E p \in Procs, e \in EventIds, u \in Users : unRsvp_findOne(p, e, u)
    \/ \E p \in Procs : unRsvp_remove(p)
    \/ \E p \in Procs : unRsvp_update(p)
    \/ Tick

Spec == Init /\ [][Next]_vars

\* the attendance ledger alone: events are created, never edited or deleted,
\* and every request arrives before the events start
NextLedger ==
    \/ \E a \in Owners, s \in Times, t \in EndTimes : createEvent(a, s, t)
    \/ \E p \in Procs, e \in EventIds, u \in Users, d \in RsvpDtos :
         rsvp_getEvent(p, e, u, d)
    \/ \E p \in Procs : rsvp_findOne(p)
    \/ \E p \in Procs : rsvp_save(p)
    \/ \E p \in Procs : rsvp_update(p)
    \/ \E p \in Procs, e \in EventIds, u \in Users : unRsvp_findOne(p, e, u)
    \/ \E p \in Procs : unRsvp_remove(p)
    \/ \E p \in Procs : unRsvp_update(p)

SpecLedger == Init /\ [][NextLedger]_vars

\* instants at which an event enters the lookahead window of the first firings
SweepStarts == oneHourFromNow(0)..oneHourFromNow(Period)
\* order of the users' first requests
UserNo(u) == IF u = "u1" THEN 1 ELSE 2
\* per (event, user): no RSVP, or the RsvpDto the RSVP was created with
Attendance == {"none", "undefined", "false"}

\* rows of the pairs that hold an RSVP, with ids in the order of creation
RowsOf(att) ==
    LET held == {x \in EventIds \X Users : att[x] # "none"}
        before(x) == {y \in held : \/ y[1] < x[1]
                                   \/ y[1] = x[1] /\ UserNo(y[2]) <= UserNo(x[2])}
    IN  {EventRSVP(Cardinality(before(x)), x[1], x[2], ReminderEnabledOf(att[x])) :
           x \in held}

\* two future events and up to MaxRsvps RSVPs, none reminded yet
InitSweeper ==
    /\ \E st \in [EventIds -> SweepStarts], att \in [EventIds \X Users -> Attendance] :
         /\ Cardinality(RowsOf(att)) <= MaxRsvps
         /\ rsvps = RowsOf(att)
         /\ events = [e \in EventIds |->
                        [ArtistEvent("a1", st[e], NoTime) EXCEPT
                           !.rsvpCount = Cardinality({r \in RowsOf(att) : r.eventId = e})]]
         /\ rsvpSeq = Cardinality(RowsOf(att))
    /\ eventSeq = Cardinality(EventIds)
    /\ now = 0
    /\ edits = 0
    /\ pc = [p \in Procs |-> "idle"]
    /\ local = [p \in Procs |-> IdleLocal]
    /\ response = NoResponse
    /\ sweep = [s \in Runs |-> IdleRun]
    /\ sweepSeq = 0
    /\ picked = {}
    /\ sent = {}
    /\ failed = {}

\* the reminder sweeper over a ledger that holds two events and their RSVPs
NextSweeper ==
    \/ \E s \in Runs : sendEventReminders_getEventsStartingSoon(s)
    \/ \E s \in Runs : sendEventReminders_getRsvpsForReminder(s)
    \/ \E s \in Runs : sendEventReminders_notify(s)
    \/ \E s \in Runs : sendEventReminders_markReminderSent(s)
    \/ Elapse

SpecSweeper == InitSweeper /\ [][NextSweeper]_vars

\* the whole service with its reminder sweeper: one handler, one user, one
\* event, which its artist can move and delete
Handler == {"p1"}
Attendee == {"u1"}
ReminderDtos == {"undefined", "false"}   \* RsvpDto: reminders kept, or switched off
NextReminders ==
    \/ \E a \in Owners, s \in SweepStarts, t \in EndTimes :
         eventSeq = 0 /\ createEvent(a, s, t)
    \/ \E p \in Handler, e \in DOMAIN events, a \in Owners,
          s \in SweepStarts, t \in EndTimes :
         updateEvent_getEvent(p, e, a, s, t)
    \/ \E p \in Handler : updateEvent_save(p)
    \/ \E p \in Handler, e \in DOMAIN events, a \in Owners :
         deleteEvent_getEvent(p, e, a)
    \/ \E p \in Handler : deleteEvent_remove(p)
    \/ \E p \in Handler, e \in DOMAIN events, u \in Attendee,
          d \in ReminderDtos : rsvp_getEvent(p, e, u, d)
    \/ \E p \in Handler : rsvp_findOne(p)
    \/ \E p \in Handler : rsvp_save(p)
    \/ \E p \in Handler : rsvp_update(p)
    \/ \E p \in Handler, e \in DOMAIN events, u \in Attendee :
         unRsvp_findOne(p, e, u)
    \/ \E p \in Handler : unRsvp_remove(p)
    \/ \E p \in Handler : unRsvp_update(p)
    \/ \E s \in Runs : sendEventReminders_getEventsStartingSoon(s)
    \/ \E s \in Runs : sendEventReminders_getRsvpsForReminder(s)
    \/ \E s \in Runs : sendEventReminders_notify(s)
    \/ \E s \in Runs : sendEventReminders_markReminderSent(s)
    \/ Elapse

SpecReminders == Init /\ [][NextReminders]_vars

\* event management: two artists create, edit and delete two events with and
\* without an end instant through one handler, while a user RSVPs through
\* another; the clock stands at 0
CreateStarts == {0, 1}             \* dto.startTime: now, or later
CreateEnds == {NoTime, 1, 2}       \* dto.endTime: absent, = start, > start
EditStarts == {NoTime, 2}          \* UpdateEventDto.startTime: absent, or later
EditEnds == {NoTime, 1, 3}         \* UpdateEventDto.endTime
Editor == {"p2"}                  \* the handler serving the artists' edits
NextCrud ==
    \/ \E a \in Artists, s \in CreateStarts, t \in CreateEnds :
         createEvent(a, s, t)
    \/ \E p \in Editor, e \in EventIds, a \in Artists, s \in EditStarts,
          t \in EditEnds : updateEvent_getEvent(p, e, a, s, t)
    \/ \E p \in Editor : updateEvent_save(p)
    \/ \E p \in Editor, e \in EventIds, a \in Artists :
         deleteEvent_getEvent(p, e, a)
    \/ \E p \in Editor : deleteEvent_remove(p)
    \/ \E p \in Handler, e \in EventIds, u \in Attendee, d \in DefaultDto :
         rsvp_getEvent(p, e, u, d)
    \/ \E p \in Handler : rsvp_findOne(p)
    \/ \E p \in Handler : rsvp_save(p)
    \/ \E p \in Handler : rsvp_update(p)

SpecCrud == Init /\ [][NextCrud]_vars

\* listings over two stored events while the clock advances
Pages == {Undefined, 1, 2, 3}      \* PaginationDto.page
Limits == {Undefined, 1, 2}        \* PaginationDto.limit
FeedStarts == 1..(MaxTime + 1)     \* start instants of the stored events
ResultLimits == {1, 2, 10, 20}     \* limits handed to a PaginatedResult

InitFeed ==
    /\ \E a \in [EventIds -> Artists], st \in [EventIds -> FeedStarts] :
         events = [e \in EventIds |-> ArtistEvent(a[e], st[e], NoTime)]
    /\ eventSeq = Cardinality(EventIds)
    /\ rsvps = {}
    /\ rsvpSeq = 0
    /\ now = 0
    /\ edits = 0
    /\ pc = [p \in Procs |-> "idle"]
    /\ local = [p \in Procs |-> IdleLocal]
    /\ response = NoResponse
    /\ sweep = [s \in Runs |-> IdleRun]
    /\ sweepSeq = 0
    /\ picked = {}
    /\ sent = {}
    /\ failed = {}

NextFeed ==
    \/ \E f \in SUBSET Artists, page \in Pages, limit \in Limits :
         getFeed(f, page, limit)
    \/ \E a \in Artists, page \in Pages, limit \in Limits :
         getEventsByArtist(a, page, limit)
    \/ \E total \in 0..MaxTotal, limit \in ResultLimits :
         newPaginatedResult(total, 1, limit)
    \/ Tick

SpecFeed == InitFeed /\ [][NextFeed]_vars

\* the ledger of one event when every handler serves a different user
UserOf(p) == IF p = "p1" THEN "u1" ELSE "u2"
NextUsers ==
    \/ \E a \in Owners, s \in Times, t \in EndTimes :
         eventSeq = 0 /\ createEvent(a, s, t)
    \/ \E p \in Procs, e \in EventIds, d \in RsvpDtos :
         rsvp_getEvent(p, e, UserOf(p), d)
    \/ \E p \in Procs : rsvp_findOne(p)
    \/ \E p \in Procs : rsvp_save(p)
    \/ \E p \in Procs : rsvp_update(p)
    \/ \E p \in Procs, e \in EventIds : unRsvp_findOne(p, e, UserOf(p))
    \/ \E p \in Procs : unRsvp_remove(p)
    \/ \E p \in Procs : unRsvp_update(p)

SpecUsers == Init /\ [][NextUsers]_vars

\* ---- properties -------------------------------------------------------
TypeOK ==
    /\ now \in 0..(MaxTime + MaxSweeps * Period)
    /\ sweepSeq \in 0..MaxSweeps
    /\ \A s \in Runs : sweep[s].pc \in {"idle", "getRsvpsForReminder",
         "notify", "markReminderSent"}
    /\ \A s \in Runs : sweep[s].pc = "idle" <=> sweep[s].upcomingEvents = <<>>
    /\ \A e \in DOMAIN events : events[e].rsvpCount \in Int
    /\ \A p \in Procs : pc[p] \in {"idle", "updateEvent_save",
         "deleteEvent_remove", "rsvp_findOne", "rsvp_save", "rsvp_update",
         "unRsvp_remove", "unRsvp_update"}

Settled == \A p \in Procs : pc[p] = "idle"

\* C1: once every Create / Remove RSVP call has settled, each event's
\* rsvpCount equals the number of RSVP rows stored for that event.
C1_CountEqualsRows ==
    Settled =>
      \A e \in DOMAIN events :
        events[e].rsvpCount = Cardinality(RsvpsOfEvent(e))

\* C2: at most one RSVP row per (event, user) pair in every reachable state.
C2_OneRowPerPair ==
    \A r1, r2 \in rsvps :
      (r1.eventId = r2.eventId /\ r1.userId = r2.userId) => r1 = r2

\* a Create RSVP that had passed the existence check was stopped by the
\* unique index: the event is there and already has a row
C2_Witness ==
    /\ response.op = "rsvp"
    /\ response.status = "QUERY_FAILED"
    /\ response.eventId \in DOMAIN events
    /\ RsvpsOfEvent(response.eventId) # {}

\* C3: a Create RSVP call that ends while a row of its (event, user) pair is
\* stored is rejected with ALREADY_EXISTS, whether it meets the row at its
\* existence check or at its insert (a transient store failure apart).
C3_SecondIsAlreadyExists ==
    [][\A p \in Procs :
         ( /\ pc[p] \in {"rsvp_findOne", "rsvp_save"}
           /\ pc'[p] = "idle"
           /\ RsvpsOf(local[p].eventId, local[p].userId) # {}
           /\ response'.status # "TRANSIENT_STORE_FAILURE" )
         => response'.status = "ALREADY_EXISTS"]_vars

\* C4: Create RSVP is atomic. A step of its transaction either commits the
\* new row together with the increment of the counter, or (the statement
\* failed, or the transaction is still open) changes neither table.
C4_RsvpAtomic ==
    [][\A p \in Procs :
         (pc[p] \in {"rsvp_save", "rsvp_update"} /\ pc'[p] # pc[p]) =>
           LET e == local[p].eventId
               u == local[p].userId
           IN  \/ /\ response'.status = "ok"
                  /\ e \in DOMAIN events
                  /\ events' = [events EXCEPT ![e].rsvpCount = @ + 1]
                  /\ \E r \in rsvps' \ rsvps :
                       /\ rsvps' = rsvps \cup {r}
                       /\ r.eventId = e
                       /\ r.userId = u
               \/ /\ response'.status # "ok"
                  /\ rsvps' = rsvps
                  /\ events' = events]_vars

\* the last id was generated by an insert whose transaction then failed at
\* the counter update: the row is in no table and in no open transaction
C4_Witness ==
    /\ response.op = "rsvp"
    /\ response.status = "TRANSIENT_STORE_FAILURE"
    /\ rsvpSeq = MaxRsvps
    /\ \A r \in rsvps : r.id # rsvpSeq
    /\ \A p \in Procs : local[p].rsvp.id # rsvpSeq
    /\ \E e \in DOMAIN events : events[e].rsvpCount > 0

\* C5: rsvpCount is non-negative in every reachable state.
C5_CountNonNegative ==
    \A e \in DOMAIN events : events[e].rsvpCount >= 0

\* a Remove RSVP has just brought the counter to 0 and another Remove RSVP
\* transaction on the same event is still open: its decrement is clamped
C5_Witness ==
    /\ response.op = "unRsvp"
    /\ response.status = "ok"
    /\ response.eventId \in DOMAIN events
    /\ events[response.eventId].rsvpCount = 0
    /\ \E p \in Procs : /\ pc[p] = "unRsvp_update"
                         /\ local[p].eventId = response.eventId

\* C6: the save of updateEvent leaves the rsvpCount of every event as it was.
C6_UpdateKeepsCount ==
    [][\A p \in Procs :
         (pc[p] = "updateEvent_save" /\ pc'[p] = "idle") =>
           \A e \in DOMAIN events \cap DOMAIN events' :
             events'[e].rsvpCount = events[e].rsvpCount]_vars

\* C7 as stated: no RSVP row is ever committed for an event that has
\* already started.
C7_NoRowForStartedEvent ==
    [][\A r \in rsvps' \ rsvps :
         /\ r.eventId \in DOMAIN events
         /\ events[r.eventId].startTime > now]_vars

\* C7 as amended: a Create RSVP call that reads an event whose start instant
\* is <= now (clock and start instant as they are at that read) is rejected
\* with INVALID_STATE and changes no table; only a call that read a start
\* instant > now goes on to the existence check.
C7_RejectedAtCheck ==
    [][/\ \A p \in Procs :
            (pc[p] = "idle" /\ pc'[p] = "rsvp_findOne") =>
              /\ local'[p].eventId \in DOMAIN events
              /\ events[local'[p].eventId].startTime > now
       /\ ( /\ response'.op = "rsvp"
            /\ pc' = pc
            /\ response'.eventId \in DOMAIN events
            /\ events[response'.eventId].startTime <= now )
          => /\ response'.status = "INVALID_STATE"
             /\ rsvps' = rsvps
             /\ events' = events]_vars

\* a Create RSVP on an event that starts exactly now was just rejected
C7_Witness ==
    /\ response.op = "rsvp"
    /\ response.status = "INVALID_STATE"
    /\ response.eventId \in DOMAIN events
    /\ events[response.eventId].startTime = now

\* C8: a successful Create RSVP(e, u, dto) adds exactly one row, of (e, u),
\* with reminderSent = FALSE and reminderEnabled = the dto's value (TRUE when
\* undefined), returns it, adds one to the counter of e, and changes no
\* other row and no other event.
C8_RsvpEffect ==
    [][\A p \in Procs :
         (pc[p] = "rsvp_update" /\ pc'[p] = "idle"
            /\ response'.status = "ok") =>
           LET e == local[p].eventId
               u == local[p].userId
               d == local[p].dto
               r == response'.rsvp
           IN  /\ r \notin rsvps
               /\ rsvps' = rsvps \cup {r}
               /\ RsvpsOf(e, u) = {}
               /\ r.eventId = e
               /\ r.userId = u
               /\ r.reminderSent = FALSE
               /\ r.reminderEnabled = (d \in {"undefined", "true"})
               /\ e \in DOMAIN events
               /\ events' = [events EXCEPT ![e].rsvpCount = @ + 1]]_vars

\* a Create RSVP without reminderEnabled has just succeeded while another
\* event holds a row with reminderEnabled = FALSE
C8_Witness ==
    /\ response.op = "rsvp"
    /\ response.status = "ok"
    /\ response.rsvp \in rsvps
    /\ response.rsvp.reminderEnabled
    /\ \E r \in rsvps : /\ r.eventId # response.eventId
                         /\ ~r.reminderEnabled
                         /\ events[r.eventId].rsvpCount = 1

\* C9: a successful Remove RSVP(e, u) deletes exactly the one row of (e, u),
\* sets the counter of e to max(counter - 1, 0), and changes no other row
\* and no other event.
C9_UnRsvpEffect ==
    [][\A p \in Procs :
         (pc[p] = "unRsvp_update" /\ pc'[p] = "idle"
            /\ response'.status = "ok") =>
           LET e == local[p].eventId
               u == local[p].userId
           IN  /\ Cardinality(RsvpsOf(e, u)) = 1
               /\ rsvps' = rsvps \ RsvpsOf(e, u)
               /\ e \in DOMAIN events
               /\ events' = [events EXCEPT
                               ![e].rsvpCount = IF @ > 0 THEN @ - 1 ELSE 0]]_vars

\* C10: a Create RSVP rejected with NOT_FOUND, INVALID_STATE or
\* ALREADY_EXISTS, and a Remove RSVP rejected with NOT_FOUND, ends the call
\* and leaves both tables as they were.
C10_RejectedChangesNothing ==
    [][( /\ response'.op \in {"rsvp", "unRsvp"}
         /\ response'.status \in
              {"NOT_FOUND", "INVALID_STATE", "ALREADY_EXISTS"} )
       => /\ rsvps' = rsvps
          /\ events' = events
          /\ \A p \in Procs : pc'[p] \in {pc[p], "idle"}
          /\ \A p \in Procs : pc[p] = "idle" => pc'[p] = "idle"]_vars

\* a second Create RSVP has just been rejected with ALREADY_EXISTS
C10_Witness ==
    /\ response.op = "rsvp"
    /\ response.status = "ALREADY_EXISTS"
    /\ response.eventId \in DOMAIN events
    /\ events[response.eventId].rsvpCount = 1
    /\ Cardinality(RsvpsOfEvent(response.eventId)) = 1

\* ---- properties of the reminder sweeper -------------------------------
\* C11: across all invocations of the sweep, no RSVP row is included in
\* more than one reminder dispatch.
C11_RowDispatchedOnce ==
    \A d1, d2 \in sent : d1 # d2 => d1.rsvpIds \cap d2.rsvpIds = {}

\* every firing has been made and every invocation has completed
SweepsDone ==
    /\ sweepSeq = MaxSweeps
    /\ \A s \in Runs : sweep[s].pc = "idle"

\* C12: with the sweep running on its interval, and also when a fetch,
\* dispatch or mark step fails, every reminder-enabled RSVP of an event that
\* entered the lookahead window is dispatched exactly once: after the sweeps
\* each such row is in one and only one accepted dispatch.
C12_NotifiedExactlyOnce ==
    SweepsDone =>
      \A e \in DOMAIN events :
        (\E n \in 1..MaxSweeps : <<n, e>> \in picked) =>
          \A r \in RsvpsWithReminder(e) :
            Cardinality({d \in sent : r.id \in d.rsvpIds}) = 1

\* C13: at most one invocation of sendEventReminders is in flight at any
\* time.
C13_NoOverlap ==
    Cardinality({s \in Runs : sweep[s].pc # "idle"}) <= 1

\* C14: for a candidate event whose fetch, dispatch and mark steps succeed,
\* the invocation fetches exactly the rows of that event with
\* reminderEnabled = TRUE and reminderSent = FALSE, dispatches once to
\* exactly their users, and sets reminderSent on exactly those rows; every
\* other row, and both tables otherwise, stay as they are.
C14_SweepEffect ==
    [][\A s \in Runs :
         LET e == Head(sweep[s].upcomingEvents)
             ids == {r.id : r \in sweep[s].rsvps}
         IN
         /\ (sweep[s].pc = "getRsvpsForReminder" /\ sweep'[s].pc = "notify") =>
              /\ sweep'[s].rsvps =
                   {r \in rsvps : /\ r.eventId = e
                                  /\ r.reminderEnabled = TRUE
                                  /\ r.reminderSent = FALSE}
              /\ sweep'[s].rsvps # {}
              /\ rsvps' = rsvps
              /\ sent' = sent
         /\ (sweep[s].pc = "notify" /\ sweep'[s].pc = "markReminderSent") =>
              /\ \E d \in sent' \ sent :
                   /\ sent' = sent \cup {d}
                   /\ d.eventId = e
                   /\ d.userIds = {r.userId : r \in sweep[s].rsvps}
                   /\ d.rsvpIds = ids
              /\ rsvps' = rsvps
         /\ (sweep[s].pc = "markReminderSent" /\ sweep'[s] # sweep[s]) =>
              /\ sent' = sent
              /\ \/ rsvps' = rsvps
                 \/ /\ \A r \in rsvps :
                         IF r.id \in ids
                         THEN [r EXCEPT !.reminderSent = TRUE] \in rsvps'
                         ELSE r \in rsvps'
                    /\ Cardinality(rsvps') = Cardinality(rsvps)
                    /\ \A r \in rsvps :
                         (r.eventId # e \/ ~r.reminderEnabled \/ r.reminderSent)
                           => r \in rsvps'
         /\ events' = events]_vars

\* one dispatch has been accepted and its rows marked, while a row of the
\* same event with reminderEnabled = FALSE still has reminderSent = FALSE
C14_Witness ==
    \E d \in sent :
      /\ \A r \in rsvps : r.id \in d.rsvpIds => r.reminderSent
      /\ \E r \in rsvps : r.id \in d.rsvpIds
      /\ \E r \in rsvps : /\ r.eventId = d.eventId
                           /\ ~r.reminderEnabled
                           /\ ~r.reminderSent
      /\ \A s \in Runs : sweep[s].pc = "idle"

\* C15: per-event isolation. Whatever a fetch, dispatch or mark step of an
\* invocation does (fail included), the invocation either stays on its
\* candidate, or goes on to the next candidate with the rest of the list
\* intact, and it completes only after its last candidate.
C15_PerEventIsolation ==
    [][\A s \in Runs :
         (sweep[s].pc # "idle" /\ sweep'[s] # sweep[s]) =>
           LET up == sweep[s].upcomingEvents IN
           \/ /\ sweep'[s].upcomingEvents = up
              /\ sweep'[s].n = sweep[s].n
              /\ sweep'[s].pc # "idle"
           \/ /\ Len(up) > 1
              /\ sweep'[s].upcomingEvents = Tail(up)
              /\ sweep'[s].n = sweep[s].n
              /\ sweep'[s].pc = "getRsvpsForReminder"
           \/ /\ Len(up) = 1
              /\ sweep'[s] = IdleRun]_vars

\* an invocation selected two events; the first one's fetch or dispatch
\* failed (its eligible row was never dispatched by this invocation) and
\* the second one's reminders have been dispatched in the same invocation
C15_Witness ==
    \E s \in Runs, e1 \in DOMAIN events :
      /\ sweep[s].pc = "markReminderSent"
      /\ Len(sweep[s].upcomingEvents) = 1
      /\ e1 # Head(sweep[s].upcomingEvents)
      /\ <<sweep[s].n, e1>> \in picked
      /\ getRsvpsForReminder(e1) # {}
      /\ \A d \in sent : d.eventId # e1
      /\ \E d \in sent : /\ d.n = sweep[s].n
                          /\ d.eventId = Head(sweep[s].upcomingEvents)

\* C16: a sweep that reads the clock at now selects an event if and only if
\* now + 55 min < start <= now + 60 min (one clock unit is 2.5 minutes, so
\* start - now is 5/2 minutes per unit): a firing never selects an event
\* outside the window, and a query that returns selects every event inside.
C16_LookaheadWindow ==
    [][(sweepSeq' = sweepSeq + 1) =>
         LET selected == {e \in DOMAIN events : <<sweepSeq', e>> \in picked'}
             inside == {e \in DOMAIN events :
                          /\ 5 * (events[e].startTime - now) > 2 * 55
                          /\ 5 * (events[e].startTime - now) <= 2 * 60}
         IN  /\ selected \in {inside, {}}
             /\ picked' = picked \cup {<<sweepSeq', e>> : e \in selected}
             /\ \A s \in Runs :
                  sweep'[s] # sweep[s] =>
                    /\ selected = inside
                    /\ {sweep'[s].upcomingEvents[i] :
                          i \in DOMAIN sweep'[s].upcomingEvents} = inside
                    /\ Len(sweep'[s].upcomingEvents) = Cardinality(inside)]_vars

\* the firing that has just read the clock selected an event that starts in
\* exactly 60 minutes and left out one that starts in exactly 55 minutes
C16_Witness ==
    \E s \in Runs, e1, e2 \in DOMAIN events :
      /\ sweep[s].n = sweepSeq
      /\ sweep[s].upcomingEvents = <<e1>>
      /\ events[e1].startTime = now + 24
      /\ events[e2].startTime = now + 22
      /\ <<sweepSeq, e1>> \in picked
      /\ <<sweepSeq, e2>> \notin picked

\* C17: with the sweep invoked every 5 minutes, an event with a fixed start
\* instant is selected by exactly one sweep; in particular it is never
\* picked up by two sweeps.
C17_SelectedOnce ==
    \A e \in DOMAIN events :
      Cardinality({n \in 1..MaxSweeps : <<n, e>> \in picked}) <= 1

\* C18: a step of a sweep invocation writes nothing but reminderSent = TRUE
\* on rows it fetched: the events table (counters included) is unchanged, no
\* row is created or deleted, and no other column of a row changes.
C18_SweepWritesOnlyReminderSent ==
    [][(sweep' # sweep \/ sweepSeq' # sweepSeq) =>
         /\ events' = events
         /\ eventSeq' = eventSeq
         /\ rsvpSeq' = rsvpSeq
         /\ {r.id : r \in rsvps'} = {r.id : r \in rsvps}
         /\ Cardinality(rsvps') = Cardinality(rsvps)
         /\ \A r \in rsvps :
              \/ r \in rsvps'
              \/ /\ ~r.reminderSent
                 /\ [r EXCEPT !.reminderSent = TRUE] \in rsvps'
                 /\ \E s \in Runs : /\ sweep[s].pc = "markReminderSent"
                                     /\ sweep'[s] # sweep[s]
                                     /\ r.id \in {x.id : x \in sweep[s].rsvps}]_vars

\* the sweeps are done: one event's only row has been marked, the counters
\* are what they were, and an eligible row of the other event is unmarked
C18_Witness ==
    /\ SweepsDone
    /\ \E r1, r2 \in rsvps :
         /\ r1.reminderSent
         /\ r2.eventId # r1.eventId
         /\ r2.reminderEnabled
         /\ ~r2.reminderSent
         /\ events[r1.eventId].rsvpCount = 1
         /\ events[r2.eventId].rsvpCount = 1

\* ---- properties of the service with its sweeper ------------------------
\* C19: reminderSent of an RSVP row is FALSE at creation, is changed only by
\* the sweep's mark step, and once TRUE stays TRUE for as long as the row
\* (the id) is stored.
C19_ReminderSentFlipsOnce ==
    [][/\ \A r \in rsvps' :
            (r.id \notin {x.id : x \in rsvps}) => r.reminderSent = FALSE
       /\ \A r \in rsvps, x \in rsvps' :
            (x.id = r.id) =>
              /\ r.reminderSent => x.reminderSent
              /\ (x.reminderSent # r.reminderSent) =>
                   \E s \in Runs : /\ sweep[s].pc = "markReminderSent"
                                   /\ sweep'[s] # sweep[s]
                                   /\ r \in sweep[s].rsvps]_vars

\* the user's first row was dispatched and removed; the row of their second
\* RSVP, created with reminderSent = FALSE, has been marked in its turn
C19_Witness ==
    /\ \E d \in sent : 1 \in d.rsvpIds
    /\ \E r \in rsvps : r.id = 2 /\ r.reminderSent
    /\ \A r \in rsvps : r.id # 1

\* C20 as stated: once the dispatch of a sweep for an event has failed, no
\* later firing selects that event again.
C20_NoRetryAfterFailedDispatch ==
    [][\A x \in picked' \ picked :
         \A m \in 1..MaxSweeps : <<m, x[2]>> \notin failed]_vars

\* C20 as amended: the invocation whose dispatch for an event failed makes
\* no further attempt for that event (it is not left among its candidates
\* and this firing never has a dispatch accepted for it); a later firing
\* selects the event, failed dispatch or not, only when its stored start
\* instant lies in that firing's window.
C20_NoRetryWithinInvocation ==
    [][/\ \A d \in sent' : <<d.n, d.eventId>> \notin failed'
       /\ \A s \in Runs :
            \A i \in DOMAIN sweep'[s].upcomingEvents :
              <<sweep'[s].n, sweep'[s].upcomingEvents[i]>> \notin failed'
       /\ \A x \in picked' \ picked :
            /\ x[1] = sweepSeq'
            /\ \A m \in 1..MaxSweeps : <<m, x[2]>> \in failed => m < x[1]
            /\ 5 * (events[x[2]].startTime - now) > 2 * 55
            /\ 5 * (events[x[2]].startTime - now) <= 2 * 60]_vars

\* the first firing's dispatch for the event failed; the artist then moved
\* the start instant into the second firing's window, and the second firing
\* has had a dispatch accepted for the event
C20_Witness ==
    \E e \in DOMAIN events :
      /\ <<1, e>> \in failed
      /\ events[e].startTime = oneHourFromNow(Period)
      /\ \E d \in sent : d.n = 2 /\ d.eventId = e

\* ---- termination of the sweep -------------------------------------------
\* a step of invocation s inside its loop
SweepStep(s) ==
    \/ sendEventReminders_getRsvpsForReminder(s)
    \/ sendEventReminders_notify(s)
    \/ sendEventReminders_markReminderSent(s)

\* every awaited call of an invocation returns or throws
SpecSweeperFair == SpecSweeper /\ \A s \in Runs : WF_vars(SweepStep(s))

\* steps an invocation still has to make at most: three per candidate
Remaining(r) ==
    IF r.pc = "idle"
    THEN 0
    ELSE 3 * Len(r.upcomingEvents)
           - (IF r.pc = "notify" THEN 1
              ELSE IF r.pc = "markReminderSent" THEN 2 ELSE 0)

\* C21: every sweep invocation terminates, and it does so after attempting
\* each candidate once: every step of its loop (a failed fetch, dispatch or
\* mark included) brings it closer to completion and leaves the invocation
\* running until its last candidate has been attempted.
C21_SweepTerminates ==
    /\ \A s \in Runs : (sweep[s].pc # "idle") ~> (sweep[s].pc = "idle")
    /\ [][\A s \in Runs :
            (sweep[s].pc # "idle" /\ sweep'[s] # sweep[s]) =>
              /\ Remaining(sweep'[s]) < Remaining(sweep[s])
              /\ (Len(sweep[s].upcomingEvents) > 1 =>
                    /\ sweep'[s].pc # "idle"
                    /\ sweep'[s].n = sweep[s].n)]_vars

\* an invocation whose dispatch for one event threw has had a dispatch
\* accepted for another event, and every invocation has completed
C21_Witness ==
    /\ SweepsDone
    /\ \E x \in failed : \E d \in sent : d.n = x[1] /\ d.eventId # x[2]

\* ---- event management -----------------------------------------------------
\* C22: when deleteEvent succeeds, the event is no longer stored, no RSVP row
\* references it, and every other event and every row of another event is
\* exactly as it was before the delete.
C22_DeleteCascades ==
    [][(response'.op = "deleteEvent" /\ response'.status = "ok") =>
         LET e == response'.eventId IN
         /\ e \in DOMAIN events
         /\ e \notin DOMAIN events'
         /\ \A r \in rsvps' : r.eventId # e
         /\ DOMAIN events' = DOMAIN events \ {e}
         /\ \A x \in DOMAIN events' : events'[x] = events[x]
         /\ rsvps' = {r \in rsvps : r.eventId # e}]_vars

\* both events received an RSVP; one event was just deleted by its owner, its
\* row went with it, and the other event still holds its row and its counter
C22_Witness ==
    /\ response.op = "deleteEvent"
    /\ response.status = "ok"
    /\ rsvpSeq = 2
    /\ \E x \in DOMAIN events :
         /\ x # response.eventId
         /\ events[x].rsvpCount = 1
         /\ \E r \in rsvps : rsvps = {r} /\ r.eventId = x

\* C23: updateEvent or deleteEvent called by an artist who does not own the
\* stored event is rejected with FORBIDDEN, and called for an event that is
\* not stored with NOT_FOUND; either way no event, counter or RSVP row
\* changes.
C23_EditRejections ==
    [][\A p \in Procs :
         LET op == response'.op
             Rejected(status) ==
               /\ response'.status = status
               /\ events' = events
               /\ rsvps' = rsvps
               /\ pc'[p] = "idle"
             Verdict(e) ==
               IF e \notin DOMAIN events
               THEN Rejected("NOT_FOUND")
               ELSE Rejected("FORBIDDEN")
             \* the events the step of p can have been called for
             Called == IF op = "none"
                       THEN {local'[p].eventId}
                       ELSE {response'.eventId}
         IN  (pc[p] = "idle" /\ (pc'[p] # "idle" \/ op # "none")) =>
               \A e \in Called \cap EventIds, a \in Artists :
                 (e \notin DOMAIN events \/ events[e].artistId # a) =>
                   /\ (op \in {"none", "deleteEvent"}
                         /\ deleteEvent_getEvent(p, e, a)) => Verdict(e)
                   /\ op \in {"none", "updateEvent"} =>
                        \A s \in EditStarts, t \in EditEnds :
                          updateEvent_getEvent(p, e, a, s, t) => Verdict(e)]_vars

\* a deleteEvent by another artist was refused while the event holds an RSVP
C23_Witness ==
    /\ response.op = "deleteEvent"
    /\ response.status = "FORBIDDEN"
    /\ response.eventId \in DOMAIN events
    /\ events[response.eventId].rsvpCount = 1
    /\ RsvpsOfEvent(response.eventId) # {}

C25_CreateEvent ==
    [][(eventSeq' # eventSeq \/ response'.op = "createEvent") =>
       \A a \in Artists, s \in CreateStarts, t \in CreateEnds :
         createEvent(a, s, t) =>
           /\ s <= now =>
                /\ response'.status = "INVALID_STATE"
                /\ events' = events
                /\ eventSeq' = eventSeq
           /\ response'.status = "ok" =>
                LET e == response'.eventId IN
                /\ s > now
                /\ e \notin DOMAIN events
                /\ DOMAIN events' = DOMAIN events \cup {e}
                /\ \A x \in DOMAIN events : events'[x] = events[x]
                /\ events'[e].artistId = a
                /\ events'[e].startTime = s
                /\ events'[e].endTime = t
                /\ events'[e].rsvpCount = 0
                /\ \A r \in rsvps' : r.eventId # e]_vars

\* the second event was just created by another artist than the first, which
\* holds an RSVP
C25_Witness ==
    /\ response.op = "createEvent"
    /\ response.status = "ok"
    /\ response.eventId = 2
    /\ 1 \in DOMAIN events
    /\ events[1].artistId # events[2].artistId
    /\ events[1].rsvpCount = 1
    /\ events[2].rsvpCount = 0
    /\ RsvpsOfEvent(2) = {}

\* ---- listings -------------------------------------------------------------
\* C26: getFeed with an empty followed-artist set returns an empty page with
\* total 0 and totalPages 0 without calling the store, whatever page and
\* limit are (sent or omitted).
C26_EmptyFeed ==
    [][response'.op = "getFeed" =>
         \A page \in Pages, limit \in Limits :
           (/\ PageOf(page) = response'.result.page
            /\ LimitOf(limit) = response'.result.limit
            /\ getFeed({}, page, limit)) =>
             /\ response'.result.data = <<>>
             /\ response'.result.total = 0
             /\ response'.result.totalPages = 0
             /\ response'.findAndCount = 0
             /\ events' = events
             /\ rsvps' = rsvps]_vars

\* a feed was answered without a store call, with the default limit, while
\* an event that has not started is stored
C26_Witness ==
    /\ response.op = "getFeed"
    /\ response.findAndCount = 0
    /\ response.result.total = 0
    /\ response.result.limit = 20
    /\ \E e \in DOMAIN events : events[e].startTime > now

\* C27: getFeed with a non-empty artist set returns only events whose artist
\* is in the set and whose start instant is strictly after now, each at most
\* once and in ascending order of start instant, and its total is the number
\* of exactly those events.
C27_FeedContents ==
    [][response'.op = "getFeed" =>
         \A f \in (SUBSET Artists) \ {{}}, page \in Pages, limit \in Limits :
           (/\ PageOf(page) = response'.result.page
            /\ LimitOf(limit) = response'.result.limit
            /\ getFeed(f, page, limit)) =>
             LET data == response'.result.data IN
             /\ \A i \in 1..Len(data) :
                  /\ data[i] \in DOMAIN events
                  /\ events[data[i]].artistId \in f
                  /\ events[data[i]].startTime > now
             /\ \A i \in 1..Len(data), j \in 1..Len(data) :
                  i < j => /\ data[i] # data[j]
                           /\ events[data[i]].startTime
                                <= events[data[j]].startTime
             /\ response'.result.total =
                  Cardinality({e \in DOMAIN events :
                                 /\ events[e].artistId \in f
                                 /\ events[e].startTime > now})]_vars

\* a feed returned one event of an artist while another event of the same
\* artist was left out because it starts at the current instant
C27_Witness ==
    /\ response.op = "getFeed"
    /\ response.findAndCount = 1
    /\ response.result.total = 1
    /\ Len(response.result.data) = 1
    /\ \E e \in DOMAIN events :
         /\ e # response.result.data[1]
         /\ events[e].artistId = events[response.result.data[1]].artistId
         /\ events[e].startTime = now

\* C28: every paginated result has totalPages = ceil(total / limit), the
\* least number of pages of limit items that hold total items; a listing for
\* page p and limit l (1 and 20 when omitted) returns the items that follow
\* the first (p - 1) * l of the ordered rows, l of them at most.
C28_Pagination ==
    [][/\ response'.op \in {"getFeed", "getEventsByArtist", "PaginatedResult"} =>
            LET r == response'.result IN
            /\ r.totalPages >= 0
            /\ r.totalPages * r.limit >= r.total
            /\ r.totalPages > 0 => (r.totalPages - 1) * r.limit < r.total
       /\ response'.op = "getEventsByArtist" =>
            \A a \in Artists, page \in Pages, limit \in Limits :
              (/\ PageOf(page) = response'.result.page
               /\ LimitOf(limit) = response'.result.limit
               /\ getEventsByArtist(a, page, limit)) =>
                LET p == IF page = Undefined THEN 1 ELSE page
                    l == IF limit = Undefined THEN 20 ELSE limit
                    r == response'.result
                    rows == {e \in DOMAIN events : events[e].artistId = a}
                    left == Cardinality(rows) - (p - 1) * l
                    taken == IF left <= 0 THEN 0 ELSE IF left <= l THEN left ELSE l
                IN  /\ r.page = p
                    /\ r.limit = l
                    /\ r.total = Cardinality(rows)
                    /\ \E q \in OrderByStartTime(rows) :
                         r.data = [i \in 1..taken |-> q[(p - 1) * l + i]]]_vars

\* 25 items in pages of 10 make 3 pages
C28_Witness ==
    /\ response.op = "PaginatedResult"
    /\ response.result.total = 25
    /\ response.result.limit = 10
    /\ response.result.totalPages = 3

\* ---- marking and skipping -------------------------------------------------
\* C29: a row has reminderSent = true only if a dispatch that contained its
\* id and its user for its event was accepted before; the step in which a
\* dispatch throws writes no row, and the invocation whose dispatch for an
\* event threw marks no row of that event.
C29_MarkedOnlyAfterDispatch ==
    [][/\ \A r \in rsvps' :
            r.reminderSent =>
              \E d \in sent : /\ d.eventId = r.eventId
                              /\ r.userId \in d.userIds
                              /\ r.id \in d.rsvpIds
       /\ failed' # failed => rsvps' = rsvps
       /\ \A s \in Runs :
            (sweep[s].pc # "idle" /\ sweep'[s] # sweep[s]) =>
              \A r \in rsvps' :
                (r.eventId = Head(sweep[s].upcomingEvents)
                   /\ r.reminderSent
                   /\ [r EXCEPT !.reminderSent = FALSE] \in rsvps) =>
                  <<sweep[s].n, r.eventId>> \notin failed']_vars

\* every invocation has completed; the dispatch for one event threw and its
\* row, which asked for a reminder, is not marked, while the row of another
\* event is marked
C29_Witness ==
    /\ SweepsDone
    /\ \E x \in failed :
         /\ \A m \in 1..MaxSweeps : <<m, x[2]>> \in picked => <<m, x[2]>> \in failed
         /\ \E r \in RsvpsOfEvent(x[2]) : r.reminderEnabled
         /\ \A r \in RsvpsOfEvent(x[2]) : ~r.reminderSent
    /\ \E r \in rsvps : r.reminderSent

\* C30: an invocation that finds no candidate event ends without a dispatch
\* and without a write; for a candidate without a row that has
\* reminderEnabled = true and reminderSent = false the invocation goes on to
\* the next candidate without a dispatch and without a write, so every
\* dispatch carries at least one user; markReminderSent of an empty id list
\* leaves the rows as they are.
C30_NothingToRemind ==
    [][/\ markReminderSent({}) = rsvps
       /\ \A d \in sent' : d.userIds # {} /\ d.rsvpIds # {}
       /\ \A s \in Runs :
            /\ (sweep[s].pc = "idle" /\ sweepSeq' # sweepSeq
                  /\ (\A q \in Runs : sweep[q].pc = "idle" => s <= q)
                  /\ getEventsStartingSoon(now) = {}) =>
                 /\ sweep'[s] = IdleRun
                 /\ sent' = sent
                 /\ rsvps' = rsvps
            /\ (sweep[s].pc = "getRsvpsForReminder" /\ sweep'[s] # sweep[s]
                  /\ getRsvpsForReminder(Head(sweep[s].upcomingEvents)) = {}) =>
                 /\ sweep'[s].pc \in {"idle", "getRsvpsForReminder"}
                 /\ sweep'[s].upcomingEvents = Tail(sweep[s].upcomingEvents)
                 /\ sent' = sent
                 /\ rsvps' = rsvps]_vars

\* every invocation has completed; one of them selected an event whose only
\* rows have reminders switched off and made no dispatch for it, but made one
\* for another event
C30_Witness ==
    /\ SweepsDone
    /\ \E x \in picked :
         /\ \A d \in sent : d.eventId # x[2]
         /\ x \notin failed
         /\ RsvpsOfEvent(x[2]) # {}
         /\ \A r \in RsvpsOfEvent(x[2]) : ~r.reminderEnabled /\ ~r.reminderSent
         /\ \E d \in sent : d.n = x[1]

\* ---- one dispatch per event -------------------------------------------------
\* C31: an invocation lists each candidate event once and calls the
\* notification service at most once for it, with the users of all the rows
\* of that event that were eligible at its fetch and with that event; no
\* user of another event is in the call, and the mark that follows writes
\* rows of that event only.
C31_OneDispatchPerEvent ==
    [][\A s \in Runs :
         LET e == Head(sweep[s].upcomingEvents)
             q == sweep'[s].upcomingEvents
         IN
         /\ (sweep[s].pc = "idle" /\ sweep'[s].pc # "idle") =>
              \A i \in 1..Len(q), j \in 1..Len(q) : i # j => q[i] # q[j]
         /\ (sweep[s].pc = "notify" /\ sweep'[s].pc = "markReminderSent") =>
              /\ \A d \in sent : ~(d.n = sweep[s].n /\ d.eventId = e)
              /\ \A r \in sweep[s].rsvps : r.eventId = e
              /\ \E d \in sent' :
                   /\ d.n = sweep[s].n
                   /\ d.eventId = e
                   /\ \A u \in d.userIds :
                        \E r \in sweep[s].rsvps : r.userId = u /\ r.eventId = e
                   /\ \A r \in sweep[s].rsvps : r.userId \in d.userIds
         /\ (sweep[s].pc = "getRsvpsForReminder" /\ sweep'[s].pc = "notify") =>
              \A r \in rsvps :
                (r.eventId = e /\ r.reminderEnabled /\ ~r.reminderSent)
                  <=> r \in sweep'[s].rsvps
         /\ (sweep[s].pc = "markReminderSent" /\ sweep'[s] # sweep[s]) =>
              \A r \in rsvps' \ rsvps : r.eventId = e]_vars

\* one invocation dispatched for two events, one call each, and each call
\* carried the user of its own event's row only
C31_Witness ==
    \E d1 \in sent, d2 \in sent :
      /\ d1.n = d2.n
      /\ d1.eventId # d2.eventId
      /\ \A r \in rsvps : r.id \in d1.rsvpIds => r.eventId = d1.eventId
      /\ \A r \in rsvps : r.id \in d2.rsvpIds => r.eventId = d2.eventId
      /\ \A r \in rsvps : r.id \in d1.rsvpIds \cup d2.rsvpIds => r.reminderSent
      /\ \E r \in rsvps : r.id \in d1.rsvpIds
      /\ \E r \in rsvps : r.id \in d2.rsvpIds

\* ---- concurrent calls on the ledger -----------------------------------------
\* C32: when the concurrent Create and Remove RSVP calls on an event are
\* made by pairwise different users, every call that succeeds moves the
\* counter by exactly one from the value stored at its commit (+1 for a
\* create, -1 for a remove), so the counter equals the number of stored rows
\* in every state: n creates and m removes change it by n - m.
C32_NoLostUpdate ==
    [][/\ \A e \in DOMAIN events' :
            events'[e].rsvpCount = Cardinality({r \in rsvps' : r.eventId = e})
       /\ (response'.op = "rsvp" /\ response'.status = "ok") =>
            events'[response'.eventId].rsvpCount =
              events[response'.eventId].rsvpCount + 1
       /\ (response'.op = "unRsvp" /\ response'.status = "ok") =>
            events'[response'.eventId].rsvpCount =
              events[response'.eventId].rsvpCount - 1]_vars

\* a Remove RSVP of one user has just committed while the Create RSVP of the
\* other user holds its insert uncommitted, after an earlier create: the
\* counter is back at 0
C32_Witness ==
    /\ response.op = "unRsvp"
    /\ response.status = "ok"
    /\ rsvpSeq = 2
    /\ events[response.eventId].rsvpCount = 0
    /\ \E p \in Procs : /\ pc[p] = "rsvp_update"
                        /\ local[p].eventId = response.eventId

\* C33: a Remove RSVP whose delete removes no row (a concurrent Remove RSVP
\* of the same pair, which read the row as well, committed first) does not
\* decrement the counter: of two such calls, one removes the row and
\* decrements, the other changes nothing.
C33_DecrementOnlyWithRow ==
    [][\A p \in Procs :
         (pc[p] = "unRsvp_update" /\ pc'[p] = "idle"
            /\ local[p].rsvp \notin rsvps) =>
           /\ rsvps' = rsvps
           /\ events' = events]_vars

\* C34: of two Create RSVP calls of one (event, user) pair that both passed
\* the existence check, at most one holds an insert; the call whose insert is
\* rejected ends with both tables as they were, and the call that commits
\* adds the one row of the pair and increments the counter by one.
C34_OneRowOneIncrement ==
    [][/\ \A p \in Procs, q \in Procs :
            (/\ p # q
             /\ pc'[p] = "rsvp_update"
             /\ pc'[q] = "rsvp_update"
             /\ local'[p].eventId = local'[q].eventId) =>
               local'[p].userId # local'[q].userId
       /\ \A p \in Procs :
            LET e == local[p].eventId
                u == local[p].userId
            IN
            /\ (pc[p] = "rsvp_save" /\ pc'[p] # pc[p] /\ RsvpsOf(e, u) # {}) =>
                 /\ pc'[p] = "idle"
                 /\ response'.status # "ok"
                 /\ rsvps' = rsvps
                 /\ events' = events
                 /\ rsvpSeq' = rsvpSeq
            /\ (pc[p] = "rsvp_update" /\ pc'[p] = "idle"
                  /\ response'.status = "ok") =>
                 /\ RsvpsOf(e, u) = {}
                 /\ Cardinality({r \in rsvps' : r.eventId = e /\ r.userId = u}) = 1
                 /\ Cardinality(rsvps') = Cardinality(rsvps) + 1
                 /\ events'[e].rsvpCount = events[e].rsvpCount + 1]_vars

\* the insert of a Create RSVP that had passed the existence check has just
\* been rejected: the pair has its one row and the counter is 1
C34_Witness ==
    /\ response.op = "rsvp"
    /\ response.status = "QUERY_FAILED"
    /\ response.eventId \in DOMAIN events
    /\ events[response.eventId].rsvpCount = 1
    /\ Cardinality(RsvpsOfEvent(response.eventId)) = 1
    /\ rsvpSeq = 1

\* C35: the mark step of an invocation changes only rows it fetched: it
\* creates no row and deletes none, a row with another id (one created for
\* the event after the fetch included) stays as it is, a fetched row that
\* was removed meanwhile stays removed, and the invocation goes on with its
\* next candidate.
C35_MarkTouchesFetchedRowsOnly ==
    [][\A s \in Runs :
         (sweep[s].pc = "markReminderSent" /\ sweep'[s] # sweep[s]) =>
           LET ids == {r.id : r \in sweep[s].rsvps} IN
           /\ {r.id : r \in rsvps'} = {r.id : r \in rsvps}
           /\ \A r \in rsvps : r.id \notin ids => r \in rsvps'
           /\ \A r \in rsvps' : r.id \in ids =>
                [r EXCEPT !.reminderSent = FALSE] \in sweep[s].rsvps
           /\ {r.id : r \in markReminderSent(ids)} = {r.id : r \in rsvps}
           /\ sweep'[s].upcomingEvents = Tail(sweep[s].upcomingEvents)]_vars

\* every invocation has completed; the row that was dispatched has been
\* removed and is not stored, and the row the user created afterwards for
\* the same event has reminderSent = false
C35_Witness ==
    /\ \A s \in Runs : sweep[s].pc = "idle"
    /\ \E d \in sent :
         /\ \A r \in rsvps : r.id \notin d.rsvpIds
         /\ \E r \in rsvps : /\ r.eventId = d.eventId
                             /\ r.userId \in d.userIds
                             /\ r.reminderEnabled
                             /\ ~r.reminderSent

\* C36: in every reachable state the event of every stored RSVP row is
\* stored: a Create RSVP whose event is deleted between its existence check
\* and its insert stores no row, and a delete that follows the insert takes
\* the row with it.
C36_NoOrphanRow ==
    \A r \in rsvps : r.eventId \in DOMAIN events

\* the insert of a Create RSVP has just been rejected because the event it
\* had read was deleted meanwhile
C36_Witness ==
    /\ response.op = "rsvp"
    /\ response.status = "QUERY_FAILED"
    /\ response.eventId \notin DOMAIN events
    /\ eventSeq >= response.eventId
    /\ rsvps = {}

\* C37: Create RSVP reports the first precondition that fails, in the order
\* NOT_FOUND, INVALID_STATE, ALREADY_EXISTS: the step that reads the event
\* ends the call with NOT_FOUND when the event is not stored and otherwise
\* with INVALID_STATE when its start instant is <= now, whether or not the
\* user holds an RSVP; only a call that read a stored event with a start
\* instant > now looks for the existing row, and ALREADY_EXISTS is reported
\* only there, when the row exists.
C37_PreconditionOrder ==
    [][/\ (response'.op = "rsvp" /\ pc' = pc) =>
            LET e == response'.eventId IN
            /\ e \notin DOMAIN events => response'.status = "NOT_FOUND"
            /\ (e \in DOMAIN events /\ events[e].startTime <= now) =>
                 response'.status = "INVALID_STATE"
            /\ response'.status \in {"NOT_FOUND", "INVALID_STATE"}
            /\ response'.status = "NOT_FOUND" => e \notin DOMAIN events
       /\ \A p \in Procs :
            /\ (pc[p] = "idle" /\ pc'[p] = "rsvp_findOne") =>
                 /\ local'[p].eventId \in DOMAIN events
                 /\ events[local'[p].eventId].startTime > now
            /\ (pc[p] = "rsvp_findOne" /\ pc'[p] # pc[p]) =>
                 IF RsvpsOf(local[p].eventId, local[p].userId) # {}
                 THEN /\ pc'[p] = "idle"
                      /\ response'.status = "ALREADY_EXISTS"
                 ELSE pc'[p] = "rsvp_save"
       /\ response'.status = "ALREADY_EXISTS" =>
            \E p \in Procs : pc[p] = "rsvp_findOne" /\ pc'[p] = "idle"]_vars

\* a Create RSVP on an event that has started was rejected with
\* INVALID_STATE while both users hold an RSVP for that event
C37_Witness ==
    /\ response.op = "rsvp"
    /\ response.status = "INVALID_STATE"
    /\ response.eventId \in DOMAIN events
    /\ events[response.eventId].startTime <= now
    /\ \A u \in Users : RsvpsOf(response.eventId, u) # {}

\* ---- reminders switched off -------------------------------------------------
\* C38: in every reachable state a row with reminderEnabled = false has
\* reminderSent = false, and no dispatch for an event carries a user whose
\* stored row for that event has reminderEnabled = false.
C38_DisabledNeverDispatched ==
    [][/\ \A r \in rsvps' : ~r.reminderEnabled => ~r.reminderSent
       /\ \A d \in sent' \ sent :
            \A r \in rsvps :
              (r.eventId = d.eventId /\ ~r.reminderEnabled) =>
                r.userId \notin d.userIds]_vars

\* C38 (amended): in every reachable state a row with reminderEnabled = false
\* has reminderSent = false, and every dispatch for an event carries only
\* users of rows of that event that were stored with reminderEnabled = true
\* when the invocation fetched them.
C38_DisabledAtFetch ==
    [][/\ \A r \in rsvps' : ~r.reminderEnabled => ~r.reminderSent
       /\ \A s \in Runs :
            /\ (sweep[s].pc = "getRsvpsForReminder" /\ sweep'[s].pc = "notify") =>
                 \A r \in sweep'[s].rsvps :
                   /\ r \in rsvps
                   /\ r.reminderEnabled
                   /\ r.eventId = Head(sweep[s].upcomingEvents)
            /\ (sweep[s].pc = "notify" /\ sweep'[s].pc = "markReminderSent") =>
                 \A d \in sent' \ sent :
                   \A u \in d.userIds :
                     \E r \in sweep[s].rsvps : /\ r.userId = u
                                               /\ r.eventId = d.eventId
                                               /\ r.reminderEnabled]_vars

\* a dispatch carried a user on account of a row that is gone; the row the
\* user holds now for that event has reminderEnabled = false and
\* reminderSent = false
C38_Witness ==
    \E d \in sent :
      \E r \in rsvps :
        /\ r.eventId = d.eventId
        /\ r.userId \in d.userIds
        /\ r.id \notin d.rsvpIds
        /\ ~r.reminderEnabled
        /\ ~r.reminderSent

\* ---- a selection that fails -------------------------------------------------
\* C39: a firing whose getEventsStartingSoon rejects (events are in its
\* window and none is selected) ends at once: no invocation is left running
\* on its account, nothing is dispatched, no row is written, and the
\* invocations that follow start from the same idle state as any other.
C39_SelectionFailure ==
    [][(/\ sweepSeq' = sweepSeq + 1
        /\ getEventsStartingSoon(now) # {}
        /\ \A e \in DOMAIN events : <<sweepSeq', e>> \notin picked') =>
          /\ sweep' = sweep
          /\ \A s \in Runs : sweep'[s].pc = "idle" => sweep'[s] = IdleRun
          /\ picked' = picked
          /\ sent' = sent
          /\ failed' = failed
          /\ rsvps' = rsvps
          /\ events' = events]_vars

\* the first firing had an event in its window and selected nothing; the
\* second firing selected the other event, dispatched for it and marked its
\* rows, and every invocation has completed
C39_Witness ==
    /\ SweepsDone
    /\ \E e1 \in DOMAIN events :
         /\ events[e1].startTime = oneHourFromNow(0)
         /\ \A n \in 1..MaxSweeps : <<n, e1>> \notin picked
    /\ \E d \in sent :
         /\ d.n = 2
         /\ <<2, d.eventId>> \in picked
         /\ \A r \in rsvps : r.id \in d.rsvpIds => r.reminderSent
         /\ \E r \in rsvps : r.id \in d.rsvpIds

\* ---- edits and the RSVP set -------------------------------------------------
\* C40: no step of updateEvent (its read, its rejection, its save) creates,
\* deletes or changes an RSVP row: after a successful updateEvent, also one
\* that moves the start instant, every row has the reminderEnabled and
\* reminderSent it had before.
C40_UpdateKeepsRsvps ==
    [][/\ response'.op = "updateEvent" => rsvps' = rsvps
       /\ \A p \in Procs :
            (\/ pc[p] = "updateEvent_save" /\ pc'[p] # pc[p]
             \/ pc[p] = "idle" /\ pc'[p] = "updateEvent_save") =>
              rsvps' = rsvps]_vars

\* an updateEvent has just moved the event out of the window in which the
\* first firing selected it, and the row that was marked then is still
\* marked
C40_Witness ==
    /\ response.op = "updateEvent"
    /\ response.status = "ok"
    /\ response.eventId \in DOMAIN events
    /\ <<1, response.eventId>> \in picked
    /\ events[response.eventId].startTime = oneHourFromNow(Period)
    /\ \E r \in RsvpsOfEvent(response.eventId) : r.reminderSent
====
